---- MODULE Spec2Model ----
(***************************************************************************)
(* Model of sendEmail.ts: the GmailSender class (authentication state,     *)
(* template parser, message encoder, send orchestration) and main().       *)
(*                                                                         *)
(* A JavaScript string is modelled as a sequence of one-character strings, *)
(* so that split, trim, join, the header object and the base64 transcoding *)
(* are computed the way the code computes them.                            *)
(***************************************************************************)
EXTENDS Integers, Sequences, FiniteSets, TLC

\* ------------------------------------------------------------------------
\* Strings
\* ------------------------------------------------------------------------

\* White space removed by String.prototype.trim (the ASCII part of it).
WhiteSpace == {" ", "\t", "\n", "\r"}

RECURSIVE trimStart(_)
trimStart(s) ==
    IF s # <<>> /\ Head(s) \in WhiteSpace THEN trimStart(Tail(s)) ELSE s

RECURSIVE trimEnd(_)
trimEnd(s) ==
    IF s # <<>> /\ s[Len(s)] \in WhiteSpace
    THEN trimEnd(SubSeq(s, 1, Len(s) - 1))
    ELSE s

\* String.prototype.trim
trim(s) == trimEnd(trimStart(s))

\* String.prototype.includes for a one-character needle
includes(s, c) == \E i \in 1..Len(s) : s[i] = c

\* String.prototype.indexOf for a one-character needle (0 when absent)
indexOf(s, c) ==
    IF includes(s, c)
    THEN CHOOSE i \in 1..Len(s) : s[i] = c /\ \A j \in 1..(i - 1) : s[j] # c
    ELSE 0

\* String.prototype.split for a one-character separator
RECURSIVE split(_, _)
split(s, c) ==
    IF ~includes(s, c)
    THEN <<s>>
    ELSE LET i == indexOf(s, c)
         IN  <<SubSeq(s, 1, i - 1)>> \o split(SubSeq(s, i + 1, Len(s)), c)

\* Array.prototype.join
RECURSIVE join(_, _)
join(parts, sep) ==
    IF parts = <<>> THEN <<>>
    ELSE IF Len(parts) = 1 THEN parts[1]
    ELSE parts[1] \o sep \o join(Tail(parts), sep)

\* Array.prototype.slice(from) and slice(0, to), 0-based as in the code
sliceFrom(arr, from) == SubSeq(arr, from + 1, Len(arr))
sliceTo(arr, to) == SubSeq(arr, 1, to)

\* ------------------------------------------------------------------------
\* Character codes, UTF-8 (ASCII range) and base64
\* ------------------------------------------------------------------------

\* The printable ASCII characters in code order: 32 (space) to 95 (_), and
\* 97 (a) to 126 (~). Code 96, the grave accent, has no TLA+ string literal
\* and is left out of the modelled character set.
AsciiLow ==
    << " ", "!", "\"", "#", "$", "%", "&", "'", "(", ")", "*", "+", ",", "-", ".", "/",
       "0", "1", "2", "3", "4", "5", "6", "7", "8", "9", ":", ";", "<", "=", ">", "?",
       "@", "A", "B", "C", "D", "E", "F", "G", "H", "I", "J", "K", "L", "M", "N", "O",
       "P", "Q", "R", "S", "T", "U", "V", "W", "X", "Y", "Z", "[", "\\", "]", "^", "_" >>

AsciiHigh ==
    << "a", "b", "c", "d", "e", "f", "g", "h", "i", "j", "k", "l", "m", "n", "o",
       "p", "q", "r", "s", "t", "u", "v", "w", "x", "y", "z", "{", "|", "}", "~" >>

Characters ==
    {"\t", "\n", "\r"}
    \cup {AsciiLow[i] : i \in 1..Len(AsciiLow)}
    \cup {AsciiHigh[i] : i \in 1..Len(AsciiHigh)}

CharCodes ==
    [c \in Characters |->
        IF c = "\t" THEN 9
        ELSE IF c = "\n" THEN 10
        ELSE IF c = "\r" THEN 13
        ELSE IF includes(AsciiHigh, c) THEN 96 + indexOf(AsciiHigh, c)
        ELSE 31 + indexOf(AsciiLow, c)]

charCodeAt(c) == CharCodes[c]

fromCharCode(b) ==
    IF b = 9 THEN "\t"
    ELSE IF b = 10 THEN "\n"
    ELSE IF b = 13 THEN "\r"
    ELSE IF b > 96 THEN AsciiHigh[b - 96]
    ELSE AsciiLow[b - 31]

\* Buffer.from(string): the UTF-8 bytes of an ASCII string
BufferFromString(s) == [i \in 1..Len(s) |-> charCodeAt(s[i])]

\* buffer.toString(utf8) for bytes in the ASCII range
BufferToUtf8(bytes) == [i \in 1..Len(bytes) |-> fromCharCode(bytes[i])]

Base64Alphabet ==
    << "A", "B", "C", "D", "E", "F", "G", "H", "I", "J", "K", "L", "M", "N", "O", "P",
       "Q", "R", "S", "T", "U", "V", "W", "X", "Y", "Z", "a", "b", "c", "d", "e", "f",
       "g", "h", "i", "j", "k", "l", "m", "n", "o", "p", "q", "r", "s", "t", "u", "v",
       "w", "x", "y", "z", "0", "1", "2", "3", "4", "5", "6", "7", "8", "9", "+", "/" >>

Sextet(n) == Base64Alphabet[n + 1]

\* buffer.toString(base64): standard base64 with = padding
RECURSIVE BufferToBase64(_)
BufferToBase64(bytes) ==
    IF bytes = <<>> THEN <<>>
    ELSE IF Len(bytes) = 1
    THEN << Sextet(bytes[1] \div 4), Sextet((bytes[1] % 4) * 16), "=", "=" >>
    ELSE IF Len(bytes) = 2
    THEN << Sextet(bytes[1] \div 4),
            Sextet((bytes[1] % 4) * 16 + bytes[2] \div 16),
            Sextet((bytes[2] % 16) * 4), "=" >>
    ELSE << Sextet(bytes[1] \div 4),
            Sextet((bytes[1] % 4) * 16 + bytes[2] \div 16),
            Sextet((bytes[2] % 16) * 4 + bytes[3] \div 64),
            Sextet(bytes[3] % 64) >>
         \o BufferToBase64(SubSeq(bytes, 4, Len(bytes)))

SextetValues ==
    [c \in {Base64Alphabet[i] : i \in 1..Len(Base64Alphabet)} |->
        indexOf(Base64Alphabet, c) - 1]

SextetValue(c) == SextetValues[c]

\* Buffer.from(string, base64): decoding stops at the first = sign, needs no
\* padding, and a final group of 2 or 3 characters yields 1 or 2 bytes.
RECURSIVE DecodeSextets(_)
DecodeSextets(v) ==
    IF Len(v) < 2 THEN <<>>
    ELSE IF Len(v) = 2
    THEN << v[1] * 4 + v[2] \div 16 >>
    ELSE IF Len(v) = 3
    THEN << v[1] * 4 + v[2] \div 16, (v[2] % 16) * 16 + v[3] \div 4 >>
    ELSE << v[1] * 4 + v[2] \div 16,
            (v[2] % 16) * 16 + v[3] \div 4,
            (v[3] % 4) * 64 + v[4] >>
         \o DecodeSextets(SubSeq(v, 5, Len(v)))

BufferFromBase64(s) ==
    LET stop == indexOf(s, "=")
        data == IF stop = 0 THEN s ELSE SubSeq(s, 1, stop - 1)
    IN  DecodeSextets([i \in 1..Len(data) |-> SextetValue(data[i])])

\* String.prototype.replace(/x/g, y) for one-character x and y
replaceAll(s, x, y) == [i \in 1..Len(s) |-> IF s[i] = x THEN y ELSE s[i]]

\* String.prototype.replace(/=+$/, empty string)
RECURSIVE stripPadding(_)
stripPadding(s) ==
    IF s # <<>> /\ s[Len(s)] = "=" THEN stripPadding(SubSeq(s, 1, Len(s) - 1)) ELSE s

\* ------------------------------------------------------------------------
\* The headers object: a plain JavaScript object ({}) with string values
\* ------------------------------------------------------------------------

\* An object is its own string-keyed properties in creation order.
EmptyObject == [keys |-> <<>>, vals |-> <<>>]

ProtoKey == <<"_", "_", "p", "r", "o", "t", "o", "_", "_">>

Digits == {"0", "1", "2", "3", "4", "5", "6", "7", "8", "9"}

\* The largest array index, 2^32 - 2, as a decimal string.
MaxArrayIndex == <<"4", "2", "9", "4", "9", "6", "7", "2", "9", "4">>

\* Order of two canonical decimal strings: by length, then digit by digit.
RECURSIVE DigitsLess(_, _)
DigitsLess(a, b) ==
    IF Len(a) # Len(b) THEN Len(a) < Len(b)
    ELSE IF a = <<>> THEN FALSE
    ELSE IF Head(a) # Head(b) THEN charCodeAt(Head(a)) < charCodeAt(Head(b))
    ELSE DigitsLess(Tail(a), Tail(b))

\* A property key that is an array index: a canonical decimal string of an
\* integer between 0 and 2^32 - 2.
IsArrayIndex(k) ==
    /\ k # <<>>
    /\ \A i \in 1..Len(k) : k[i] \in Digits
    /\ (Len(k) = 1 \/ k[1] # "0")
    /\ (k = MaxArrayIndex \/ DigitsLess(k, MaxArrayIndex))

HasOwn(obj, k) == \E i \in 1..Len(obj.keys) : obj.keys[i] = k

KeyIndex(obj, k) == CHOOSE i \in 1..Len(obj.keys) : obj.keys[i] = k

\* obj[k] for a key other than __proto__: the own value, or undefined.
\* A value is [defined |-> BOOLEAN, str |-> string].
Undefined == [defined |-> FALSE, str |-> <<>>]
Get(obj, k) ==
    IF HasOwn(obj, k)
    THEN [defined |-> TRUE, str |-> obj.vals[KeyIndex(obj, k)]]
    ELSE Undefined

\* ToBoolean of a string-or-undefined value
Truthy(v) == v.defined /\ v.str # <<>>

\* obj[k] = v for a string v. Assigning a string to __proto__ runs the
\* inherited setter, which ignores a value that is neither object nor null;
\* an existing property keeps its place; a new one is added last.
Set(obj, k, v) ==
    IF k = ProtoKey THEN obj
    ELSE IF HasOwn(obj, k)
    THEN [obj EXCEPT !.vals[KeyIndex(obj, k)] = v]
    ELSE [keys |-> Append(obj.keys, k), vals |-> Append(obj.vals, v)]

\* Ascending insertion of an array-index key into a sorted list of them
RECURSIVE InsertIndex(_, _)
InsertIndex(sorted, k) ==
    IF sorted = <<>> THEN <<k>>
    ELSE IF DigitsLess(k, Head(sorted)) THEN <<k>> \o sorted
    ELSE <<Head(sorted)>> \o InsertIndex(Tail(sorted), k)

RECURSIVE IndexKeys(_)
IndexKeys(keys) ==
    IF keys = <<>> THEN <<>>
    ELSE LET rest == IndexKeys(SubSeq(keys, 1, Len(keys) - 1))
             k == keys[Len(keys)]
         IN  IF IsArrayIndex(k) THEN InsertIndex(rest, k) ELSE rest

\* Object.keys(obj): array-index keys in ascending numeric order, then the
\* other string keys in creation order.
ObjectKeys(obj) ==
    IndexKeys(obj.keys) \o SelectSeq(obj.keys, LAMBDA k : ~IsArrayIndex(k))

\* ------------------------------------------------------------------------
\* parseEmailTemplate
\* ------------------------------------------------------------------------

From == <<"F", "r", "o", "m">>
To == <<"T", "o">>
Subject == <<"S", "u", "b", "j", "e", "c", "t">>

\* Variant: To is not among the mandatory fields
MANDATORY_FIELDS_WithoutTo == <<From, Subject>>

MANDATORY_FIELDS == <<From, To, Subject>>

\* Variant: the loop stops before the last element (i < lines.length - 1)
headerEndIndexSkipsLast(lines) ==
    IF \E i \in 1..(Len(lines) - 1) : trim(lines[i]) = <<>>
    THEN (CHOOSE i \in 1..(Len(lines) - 1) :
             /\ trim(lines[i]) = <<>>
             /\ \A j \in 1..(i - 1) : trim(lines[j]) # <<>>) - 1
    ELSE -1

\* Index (0-based, -1 when none) of the first line that is empty after trim
headerEndIndex(lines) ==
    IF \E i \in 1..Len(lines) : trim(lines[i]) = <<>>
    THEN (CHOOSE i \in 1..Len(lines) :
             /\ trim(lines[i]) = <<>>
             /\ \A j \in 1..(i - 1) : trim(lines[j]) # <<>>) - 1
    ELSE -1

\* Variant: the value is the text between the first and the second colon
ParseHeaderLineFirstPart(headers, line) ==
    IF includes(line, ":")
    THEN LET parts == split(line, ":")
         IN  Set(headers, trim(parts[1]), trim(parts[2]))
    ELSE headers

\* The body of the forEach callback of lines 175-180
ParseHeaderLine(headers, line) ==
    IF includes(line, ":")
    THEN LET parts == split(line, ":")
             key == parts[1]
             valueParts == Tail(parts)
         IN  Set(headers, trim(key), trim(join(valueParts, <<":">>)))
    ELSE headers

RECURSIVE ParseHeaders(_, _)
ParseHeaders(headers, headerLines) ==
    IF headerLines = <<>> THEN headers
    ELSE ParseHeaders(ParseHeaderLine(headers, Head(headerLines)), Tail(headerLines))

\* Variant: find instead of filter, only the first missing field is kept
missingFieldsFirstOnly(headers) ==
    LET all == SelectSeq(MANDATORY_FIELDS, LAMBDA field : ~Truthy(Get(headers, field)))
    IN  IF all = <<>> THEN <<>> ELSE << all[1] >>

\* MANDATORY_FIELDS.filter(field => !headers[field])
missingFields(headers) ==
    SelectSeq(MANDATORY_FIELDS, LAMBDA field : ~Truthy(Get(headers, field)))

\* One console.error call: which message, and the text interpolated into it.
Message(msg, detail) == [msg |-> msg, detail |-> detail]

NoParsed == [isNull |-> TRUE, headers |-> EmptyObject, body |-> <<>>]

ParseResult(threw, parsed, errors) ==
    [threw |-> threw, parsed |-> parsed, errors |-> errors]

\* A file of the file system: absent, present but failing to be read
\* (readFileSync throws), or present with a text content.
File(exists, readable, content) ==
    [exists |-> exists, readable |-> readable, content |-> content]

parseEmailTemplate(file) ==
    IF ~file.exists
    THEN ParseResult(FALSE, NoParsed, << Message("TemplateNotFound", <<>>) >>)
    ELSE IF ~file.readable
    THEN ParseResult(TRUE, NoParsed, <<>>)
    ELSE
    LET lines == split(file.content, "\n")
        end == headerEndIndex(lines)
    IN  IF end = -1
        THEN ParseResult(FALSE, NoParsed, << Message("NoEmptyLine", <<>>) >>)
        ELSE
        LET headerLines == sliceTo(lines, end)
            bodyLines == sliceFrom(lines, end + 1)
            headers == ParseHeaders(EmptyObject, headerLines)
            missing == missingFields(headers)
        IN  IF Len(missing) > 0
            THEN ParseResult(FALSE, NoParsed,
                     << Message("FieldRequired", join(missing, <<",", " ">>)) >>)
            ELSE ParseResult(FALSE,
                     [isNull |-> FALSE, headers |-> headers,
                      body |-> join(bodyLines, <<"\n">>)],
                     <<>>)

\* ------------------------------------------------------------------------
\* createMessage
\* ------------------------------------------------------------------------

\* headers[key] || ''
ValueOrEmpty(v) == IF Truthy(v) THEN v.str ELSE <<>>

\* The message text of lines 199-209, before it is transcoded
MessageText(headers, body) ==
    LET keys == ObjectKeys(headers)
        messageParts ==
            [i \in 1..Len(keys) |->
                keys[i] \o <<":", " ">> \o ValueOrEmpty(Get(headers, keys[i]))]
            \o << <<>> >> \o << body >>
    IN  join(messageParts, <<"\n">>)

\* Variant: the replacement of / by _ is left out
ToBase64UrlKeepsSlash(bytes) ==
    stripPadding(replaceAll(BufferToBase64(bytes), "+", "-"))

\* Lines 210-214
ToBase64Url(bytes) ==
    stripPadding(replaceAll(replaceAll(BufferToBase64(bytes), "+", "-"), "/", "_"))

createMessage(headers, body) == ToBase64Url(BufferFromString(MessageText(headers, body)))

\* Lines 252-255: the decoding sendEmail applies to the payload before logging
decodeRaw(raw) ==
    BufferToUtf8(BufferFromBase64(replaceAll(replaceAll(raw, "-", "+"), "_", "/")))

\* ------------------------------------------------------------------------
\* Inputs: the template files the parser may find on disk
\* ------------------------------------------------------------------------

\* Longest header block, in lines, of an enumerated template.
MaxHeaderLines == 4

\* sendEmail calls made on one GmailSender by a client of the class.
MaxCalls == 2

HeaderLines ==
    { <<"F", "r", "o", "m", ":", " ", "a">>,
      <<"T", "o", ":", "b", " ">>,
      <<" ", "S", "u", "b", "j", "e", "c", "t", " ", ":", " ", "c">>,
      <<"T", "o", ":">>,
      <<"1", ":">>,
      <<"X", ":", " ", "b", ":", "c">>,
      ProtoKey \o <<":", " ", "p">>,
      <<"j", "u", "n", "k">> }

\* What follows the header block: nothing, a final newline, a blank line and
\* a body, or CRLF line ends with a white-space line and a body that has a
\* blank line and a final newline.
Tails ==
    { <<>>,
      <<"\n">>,
      <<"\n", "\n", "H", "i", ">", ">", ">", "?", "?", "?">>,
      <<"\r", "\n", " ", "\r", "\n", "B", "\n", "\n", "c", "\n">> }

\* Header blocks: up to MaxHeaderLines different lines, in any order
HeaderBlocks ==
    UNION { { h \in [1..n -> HeaderLines] :
                \A i, j \in 1..n : i # j => h[i] # h[j] } : n \in 0..MaxHeaderLines }

Templates == { join(h, <<"\n">>) \o t : h \in HeaderBlocks, t \in Tails }

Files ==
    { File(FALSE, FALSE, <<>>), File(TRUE, FALSE, <<>>) }
    \cup { File(TRUE, TRUE, c) : c \in Templates }

\* ------------------------------------------------------------------------
\* State
\* ------------------------------------------------------------------------

DefaultTemplateFile == "email.html.eml"
OtherTemplateFile == "other.eml"

\* No value: an argument not passed, a command line without a path.
NoArgument == "undefined"

VARIABLES
    gmail,          \* this.gmail is not null
    oAuth2Client,   \* this.oAuth2Client is not null
    envSet,         \* the three GOOGLE_* environment variables are all set
    tokenFile,      \* TOKEN_PATH exists
    argv,           \* the template path given on the command line, if any
    pc,             \* where the program or the current sendEmail call stands
    calls,          \* sendEmail calls started
    templateFile,   \* sendEmail's parameter
    template,       \* the path and file that parseEmailTemplate read
    parsed,         \* what parseEmailTemplate returned
    raw,            \* the payload createMessage returned
    decodedMessage, \* the payload decoded for the log
    invoked,        \* how often the current call ran each step
    errors,         \* console.error messages of the current call, in order
    result,         \* the outcome of the current call
    mainOut         \* what main printed last, or the error main().catch got

vars ==
    << gmail, oAuth2Client, envSet, tokenFile, argv, pc, calls, templateFile,
       template, parsed, raw, decodedMessage, invoked, errors, result, mainOut >>

NoTemplate == [path |-> NoArgument, file |-> File(FALSE, FALSE, <<>>)]

NoneInvoked == [auth |-> 0, parse |-> 0, send |-> 0]

\* The locals of a sendEmail call, before they are assigned and after it ends
LocalsCleared ==
    /\ template' = NoTemplate
    /\ parsed' = NoParsed
    /\ raw' = <<>>
    /\ decodedMessage' = <<>>

LocalsUnchanged == UNCHANGED << template, parsed, raw, decodedMessage >>

SenderUnchanged == UNCHANGED << gmail, oAuth2Client, envSet, tokenFile, argv >>

\* A new GmailSender in a new process
Constructed ==
    /\ gmail = FALSE
    /\ oAuth2Client = FALSE
    /\ envSet \in BOOLEAN
    /\ tokenFile \in BOOLEAN
    /\ calls = 0
    /\ templateFile = NoArgument
    /\ template = NoTemplate
    /\ parsed = NoParsed
    /\ raw = <<>>
    /\ decodedMessage = <<>>
    /\ invoked = NoneInvoked
    /\ errors = <<>>
    /\ result = "none"
    /\ mainOut = "none"

\* The program started from the command line
Init ==
    /\ Constructed
    /\ argv \in {NoArgument, OtherTemplateFile}
    /\ pc = "main"

\* A GmailSender used directly by a client that calls sendEmail repeatedly
InitSender ==
    /\ Constructed
    /\ argv = NoArgument
    /\ pc = "idle"

\* ------------------------------------------------------------------------
\* sendEmail: entry
\* ------------------------------------------------------------------------

\* The default value of sendEmail's parameter
sendEmailParameter(arg) == IF arg = NoArgument THEN DefaultTemplateFile ELSE arg

\* sendEmail(arg) up to its first await, the call of ensureAuthentication
EnterSendEmail(arg) ==
    /\ calls' = calls + 1
    /\ templateFile' = sendEmailParameter(arg)
    /\ LocalsCleared
    /\ invoked' = [NoneInvoked EXCEPT !.auth = 1]
    /\ errors' = <<>>
    /\ result' = "none"
    /\ pc' = "auth"

\* Variant: main passes the path of the command line
MainArgumentFromArgv == argv

\* What main passes to sendEmail: nothing
MainArgument == NoArgument

\* main: new GmailSender(), then sender.sendEmail()
Main ==
    /\ pc = "main"
    /\ EnterSendEmail(MainArgument)
    /\ UNCHANGED mainOut
    /\ SenderUnchanged

\* A client of the class calls sendEmail, with or without a path
ClientCall ==
    /\ pc \in {"idle", "returned"}
    /\ calls < MaxCalls
    /\ \E arg \in {NoArgument, OtherTemplateFile} : EnterSendEmail(arg)
    /\ UNCHANGED mainOut
    /\ SenderUnchanged

\* ------------------------------------------------------------------------
\* ensureAuthentication
\* ------------------------------------------------------------------------

\* ensureAuthentication returns to sendEmail, which goes on after its await
AuthReturns(newErrors) ==
    /\ errors' = errors \o newErrors
    /\ pc' = "afterAuth"
    /\ UNCHANGED << envSet, argv, calls, templateFile, invoked, result, mainOut >>
    /\ LocalsUnchanged

AuthError == << Message("AuthenticationError", <<>>) >>

\* Lines 52-85, up to the first await of ensureAuthentication: the early
\* return, the environment check, the client, and the stored token (read, or
\* failing to be read or parsed) or the prompt for an authorization code
AuthEnter ==
    /\ pc = "auth"
    /\ IF oAuth2Client
       THEN /\ AuthReturns(<<>>)
            /\ UNCHANGED << gmail, oAuth2Client, tokenFile >>
       ELSE IF ~envSet
       THEN /\ AuthReturns(<< Message("MissingEnvironmentVariables", <<>>) >>)
            /\ UNCHANGED << gmail, oAuth2Client, tokenFile >>
       ELSE /\ oAuth2Client' = TRUE
            /\ UNCHANGED << gmail, tokenFile >>
            /\ IF tokenFile
               THEN \E tokenReadable \in BOOLEAN :
                       IF tokenReadable
                       THEN /\ pc' = "tokenInfo"
                            /\ UNCHANGED << envSet, argv, calls, templateFile,
                                            invoked, errors, result, mainOut >>
                            /\ LocalsUnchanged
                       ELSE AuthReturns(AuthError)
               ELSE /\ pc' = "awaitCode"
                    /\ UNCHANGED << envSet, argv, calls, templateFile, invoked,
                                    errors, result, mainOut >>
                    /\ LocalsUnchanged

\* saveToken: writeFileSync creates TOKEN_PATH
saveToken == tokenFile' = TRUE

\* Lines 121-126 and 85: the code is exchanged, the token saved, and
\* getTokenInfo is awaited
GetAccessTokenResolves ==
    /\ pc = "awaitCode"
    /\ saveToken
    /\ pc' = "tokenInfo"
    /\ UNCHANGED << gmail, oAuth2Client, envSet, argv, calls, templateFile, invoked,
                    errors, result, mainOut >>
    /\ LocalsUnchanged

\* Lines 127-130 and 94-96: getToken rejects or saveToken throws
GetAccessTokenRejects ==
    /\ pc = "awaitCode"
    /\ AuthReturns(<< Message("ErrorRetrievingAccessToken", <<>>) >> \o AuthError)
    /\ UNCHANGED << gmail, oAuth2Client, tokenFile >>

\* Lines 85-88 and 93: the token has not expired
TokenInfoFresh ==
    /\ pc = "tokenInfo"
    /\ gmail' = TRUE
    /\ AuthReturns(<<>>)
    /\ UNCHANGED << oAuth2Client, tokenFile >>

\* Lines 85-89: the token has expired, refreshAccessToken is awaited
TokenInfoExpired ==
    /\ pc = "tokenInfo"
    /\ pc' = "refresh"
    /\ UNCHANGED << gmail, oAuth2Client, envSet, tokenFile, argv, calls,
                    templateFile, invoked, errors, result, mainOut >>
    /\ LocalsUnchanged

\* Lines 85-87 and 94-96: getTokenInfo rejects
TokenInfoRejects ==
    /\ pc = "tokenInfo"
    /\ AuthReturns(AuthError)
    /\ UNCHANGED << gmail, oAuth2Client, tokenFile >>

\* Lines 89-93
RefreshResolves ==
    /\ pc = "refresh"
    /\ saveToken
    /\ gmail' = TRUE
    /\ AuthReturns(<<>>)
    /\ UNCHANGED oAuth2Client

\* Lines 89-90 and 94-96: refreshAccessToken rejects or saveToken throws
RefreshRejects ==
    /\ pc = "refresh"
    /\ AuthReturns(AuthError)
    /\ UNCHANGED << gmail, oAuth2Client, tokenFile >>

ensureAuthentication ==
    \/ AuthEnter
    \/ GetAccessTokenResolves
    \/ GetAccessTokenRejects
    \/ TokenInfoFresh
    \/ TokenInfoExpired
    \/ TokenInfoRejects
    \/ RefreshResolves
    \/ RefreshRejects

\* ------------------------------------------------------------------------
\* sendEmail: after authentication
\* ------------------------------------------------------------------------

\* sendEmail returns value (true or false) or throws (rejected)
Returns(value, newErrors) ==
    /\ result' = value
    /\ errors' = errors \o newErrors
    /\ pc' = "returned"
    /\ LocalsCleared

\* Lines 223-226
GmailMissing ==
    /\ pc = "afterAuth"
    /\ ~gmail
    /\ Returns("false", << Message("NotAuthenticated", <<>>) >>)
    /\ UNCHANGED << calls, templateFile, invoked, mainOut >>
    /\ SenderUnchanged

\* Line 229: parseEmailTemplate(templateFile) on whatever file is at that path.
\* An exception of readFileSync leaves sendEmail, which has no handler there.
ParseTemplate ==
    /\ pc = "afterAuth"
    /\ gmail
    /\ \E file \in Files :
          LET got == parseEmailTemplate(file)
          IN  /\ invoked' = [invoked EXCEPT !.parse = @ + 1]
              /\ IF got.threw
                 THEN Returns("rejected", <<>>)
                 ELSE /\ template' = [path |-> templateFile, file |-> file]
                      /\ parsed' = got.parsed
                      /\ errors' = errors \o got.errors
                      /\ pc' = "parsed"
                      /\ UNCHANGED << raw, decodedMessage, result >>
    /\ UNCHANGED << calls, templateFile, mainOut >>
    /\ SenderUnchanged

\* Lines 230-265: the null check, the To check, createMessage, the decoding
\* for the log, and the call of gmail.users.messages.send, which is awaited
AfterParse ==
    /\ pc = "parsed"
    /\ IF parsed.isNull
       THEN /\ Returns("false", << Message("FailedToParse", <<>>) >>)
            /\ UNCHANGED invoked
       ELSE IF ~Truthy(Get(parsed.headers, To))
       THEN /\ Returns("false", << Message("ToRequired", <<>>) >>)
            /\ UNCHANGED invoked
       ELSE /\ raw' = createMessage(parsed.headers, parsed.body)
            /\ decodedMessage' = decodeRaw(raw')
            /\ invoked' = [invoked EXCEPT !.send = @ + 1]
            /\ pc' = "sending"
            /\ UNCHANGED << template, parsed, errors, result >>
    /\ UNCHANGED << calls, templateFile, mainOut >>
    /\ SenderUnchanged

\* Lines 267-272
SendResolves ==
    /\ pc = "sending"
    /\ Returns("true", <<>>)
    /\ UNCHANGED << calls, templateFile, invoked, mainOut >>
    /\ SenderUnchanged

\* Variant: the catch block logs the error and throws it again
SendRejectsRethrows ==
    /\ pc = "sending"
    /\ Returns("rejected", << Message("AnErrorOccurred", <<>>) >>)
    /\ UNCHANGED << calls, templateFile, invoked, mainOut >>
    /\ SenderUnchanged

\* Lines 273-276
SendRejects ==
    /\ pc = "sending"
    /\ Returns("false", << Message("AnErrorOccurred", <<>>) >>)
    /\ UNCHANGED << calls, templateFile, invoked, mainOut >>
    /\ SenderUnchanged

sendEmail ==
    \/ ensureAuthentication
    \/ GmailMissing
    \/ ParseTemplate
    \/ AfterParse
    \/ SendResolves
    \/ SendRejects

\* Lines 292-296, and line 300 when sendEmail threw
MainReports ==
    /\ pc = "returned"
    /\ mainOut' = CASE result = "true" -> "Email sent successfully!"
                    [] result = "false" -> "Failed to send email!"
                    [] OTHER -> "uncaught error"
    /\ pc' = "exited"
    /\ UNCHANGED << calls, templateFile, invoked, errors, result >>
    /\ LocalsUnchanged
    /\ SenderUnchanged

\* The program: main runs sendEmail once and reports
Next == Main \/ sendEmail \/ MainReports

Spec == Init /\ [][Next]_vars

\* The class: a client calls sendEmail on one GmailSender, again and again
NextSender == ClientCall \/ sendEmail

SenderSpec == InitSender /\ [][NextSender]_vars

\* ------------------------------------------------------------------------
\* The template as a text, read independently of the parser
\* ------------------------------------------------------------------------

Content == template.file.content

\* parseEmailTemplate has read a file that exists and is readable
TemplateRead ==
    /\ pc \in {"parsed", "sending"}
    /\ template.file.exists
    /\ template.file.readable

Logged(msg) == \E i \in 1..Len(errors) : errors[i].msg = msg

\* Where lines start: at 1 and after every newline (so Len + 1 starts the
\* empty piece after a final newline, and the only piece of an empty text)
LineStarts(c) == {1} \cup { i + 1 : i \in { j \in 1..Len(c) : c[j] = "\n" } }

\* Index of the newline that ends the line starting at p, Len + 1 if none
LineEnd(c, p) ==
    IF \E i \in p..Len(c) : c[i] = "\n"
    THEN CHOOSE i \in p..Len(c) : c[i] = "\n" /\ \A j \in p..(i - 1) : c[j] # "\n"
    ELSE Len(c) + 1

LineAt(c, p) == SubSeq(c, p, LineEnd(c, p) - 1)

IsBlank(line) == \A i \in 1..Len(line) : line[i] \in WhiteSpace

\* The lines of the text as a reader counts them: a final newline ends the
\* last line and starts no further one; an empty text has no line.
TextLineStarts(c) == { p \in LineStarts(c) : p <= Len(c) }

BlankStarts(c) == { p \in LineStarts(c) : IsBlank(LineAt(c, p)) }

HasSeparator(c) == BlankStarts(c) # {}

FirstBlank(c) == CHOOSE p \in BlankStarts(c) : \A q \in BlankStarts(c) : p <= q

\* Everything after the first blank line
BodyAfter(c) == SubSeq(c, LineEnd(c, FirstBlank(c)) + 1, Len(c))

\* The headers written before the first blank line: for each line with a
\* colon, where it starts, the trimmed text before the first colon and the
\* trimmed text after it
WrittenAt(c, p) ==
    LET line == LineAt(c, p)
        colon == indexOf(line, ":")
    IN  [at |-> p,
         key |-> trim(SubSeq(line, 1, colon - 1)),
         value |-> trim(SubSeq(line, colon + 1, Len(line)))]

Written(c) ==
    LET first == FirstBlank(c)
    IN  { WrittenAt(c, p) :
            p \in { q \in LineStarts(c) : q < first /\ includes(LineAt(c, q), ":") } }

\* The helpers below take W, the written headers of a text.
WrittenKeys(W) == { w.key : w \in W }

\* Where a name is written first
FirstAt(W, k) ==
    LET at == { w.at : w \in { v \in W : v.key = k } }
    IN  CHOOSE p \in at : \A q \in at : p <= q

\* The value written last for a name
LastValue(W, k) ==
    LET named == { w \in W : w.key = k }
        last == CHOOSE w \in named : \A v \in named : v.at <= w.at
    IN  last.value

\* A name is present when it is written and its last value is not empty
Present(W, k) == k \in WrittenKeys(W) /\ LastValue(W, k) # <<>>

Mandatory == {From, To, Subject}

AbsentOrEmpty(W) == { f \in Mandatory : ~Present(W, f) }

\* The key/value pairs of a header object
Pairs(obj) == { << obj.keys[i], obj.vals[i] >> : i \in 1..Len(obj.keys) }

\* The names listed in an error text, which separates them by ", "
NamesIn(text) ==
    IF text = <<>> THEN {}
    ELSE { trim(split(text, ",")[i]) : i \in 1..Len(split(text, ",")) }

\* 'Key: Value' lines, one blank line, the body
RECURSIVE HeaderLinesOf(_, _)
HeaderLinesOf(obj, keys) ==
    IF keys = <<>> THEN <<>>
    ELSE Head(keys) \o <<":", " ">> \o Get(obj, Head(keys)).str \o <<"\n">>
         \o HeaderLinesOf(obj, Tail(keys))

Serialized(obj, body) == HeaderLinesOf(obj, ObjectKeys(obj)) \o <<"\n">> \o body

\* The names of the 'Key: Value' lines of the decoded message, in order
EmittedKeys ==
    LET out == split(decodedMessage, "\n")
    IN  [i \in 1..Len(parsed.headers.keys) |->
            SubSeq(out[i], 1, indexOf(out[i], ":") - 1)]

Ended == pc \in {"returned", "exited"}

\* ------------------------------------------------------------------------
\* C1
\* ------------------------------------------------------------------------

\* C1: in a run of sendEmail no step runs twice, the send operation is invoked
\* only with a gmail client, a ParsedEmail and a non-empty To, and a run that
\* ends without invoking the send operation has returned false.
C1_SendOnceElseFalse ==
    /\ invoked.auth <= 1 /\ invoked.parse <= 1 /\ invoked.send <= 1
    /\ (invoked.send = 1) => (pc = "sending" \/ Ended)
    /\ (pc = "sending")
          => gmail /\ ~parsed.isNull /\ Truthy(Get(parsed.headers, To))
    /\ (Ended /\ invoked.send = 0) => result = "false"

\* ------------------------------------------------------------------------
\* C2
\* ------------------------------------------------------------------------

\* C2: when the template has a separator and some of From, To, Subject are
\* absent or empty (by their last written value), parseEmailTemplate returns
\* null and the error names exactly those fields, all of them.
C2_AllMissingFieldsNamed ==
    (TemplateRead /\ HasSeparator(Content))
        => LET missing == AbsentOrEmpty(Written(Content))
           IN  missing # {}
                  => /\ parsed.isNull
                     /\ \E i \in 1..Len(errors) :
                           /\ errors[i].msg = "FieldRequired"
                           /\ NamesIn(errors[i].detail) = missing

C2_Witness ==
    /\ TemplateRead
    /\ HasSeparator(Content)
    /\ LET W == Written(Content)
       IN  /\ Cardinality(AbsentOrEmpty(W)) = 2
           /\ To \in WrittenKeys(W)
           /\ To \in AbsentOrEmpty(W)
    /\ Logged("FieldRequired")

\* ------------------------------------------------------------------------
\* C3
\* ------------------------------------------------------------------------

\* C3, as claimed: a template that has lines, none of them blank, fails with
\* the no-separator error, also when a newline ends its last header line.
C3_NoBlankLineFails ==
    (/\ TemplateRead
     /\ TextLineStarts(Content) # {}
     /\ \A p \in TextLineStarts(Content) : ~IsBlank(LineAt(Content, p)))
        => parsed.isNull /\ Logged("NoEmptyLine")

\* C3, amended: parsing fails with the no-separator error exactly when no
\* piece of the text between newlines is blank, the piece after a final
\* newline being one of them: a text that ends with a newline, and the empty
\* text, have a separator.
C3_NoBlankPieceFails ==
    TemplateRead
        => ((parsed.isNull /\ Logged("NoEmptyLine")) <=> ~HasSeparator(Content))

C3_Witness ==
    /\ TemplateRead
    /\ ~HasSeparator(Content)
    /\ Mandatory \subseteq WrittenKeys(Written(Content \o <<"\n">>))
    /\ parsed.isNull
    /\ Logged("NoEmptyLine")

\* ------------------------------------------------------------------------
\* C4
\* ------------------------------------------------------------------------

C5_RoundTrip ==
    (pc = "sending")
        => /\ decodedMessage = Serialized(parsed.headers, parsed.body)
           /\ BufferFromString(decodedMessage)
                 = BufferFromString(MessageText(parsed.headers, parsed.body))
           /\ \A i \in 1..Len(raw) : raw[i] \notin {"+", "/"}
           /\ raw # <<>> /\ raw[Len(raw)] # "="

C5_Witness ==
    /\ pc = "sending"
    /\ includes(raw, "-")
    /\ includes(raw, "_")
    /\ Len(raw) % 4 # 0
    /\ decodedMessage = Serialized(parsed.headers, parsed.body)

\* ------------------------------------------------------------------------
\* C6
\* ------------------------------------------------------------------------

\* C6: the 'Key: Value' lines of the message are in the order in which their
\* names first appear in the template.
C6_FirstAppearanceOrder ==
    (pc = "sending")
        => LET W == Written(Content)
               emitted == EmittedKeys
           IN  \A i, j \in 1..Len(emitted) :
                  i < j => FirstAt(W, emitted[i]) < FirstAt(W, emitted[j])

\* ------------------------------------------------------------------------
\* C7
\* ------------------------------------------------------------------------

AuthOrSendErrorLogged ==
    \/ Logged("MissingEnvironmentVariables")
    \/ Logged("AuthenticationError")
    \/ Logged("ErrorRetrievingAccessToken")
    \/ Logged("AnErrorOccurred")

\* C7: once an authentication or send error was raised, sendEmail does not
\* throw: it ends with false, and main prints the failure.
C7_ErrorsCaught ==
    /\ AuthOrSendErrorLogged => result \in {"none", "false"}
    /\ (AuthOrSendErrorLogged /\ Ended) => result = "false"
    /\ (AuthOrSendErrorLogged /\ pc = "exited") => mainOut = "Failed to send email!"

C7_Witness ==
    /\ pc = "exited"
    /\ Logged("AnErrorOccurred")
    /\ mainOut = "Failed to send email!"

\* ------------------------------------------------------------------------
\* C8
\* ------------------------------------------------------------------------

\* C8, as claimed: the template parsed is the one at the path given on the
\* command line, and the default one only when no path is given.
C8_PathArgumentUsed ==
    (pc \in {"parsed", "sending"})
        => template.path = (IF argv = NoArgument THEN DefaultTemplateFile ELSE argv)

\* C8, amended: main calls sendEmail without argument, so the template parsed
\* is always the default one, whatever the command line holds.
C8_AlwaysDefault ==
    /\ (pc # "main") => templateFile = DefaultTemplateFile
    /\ (pc \in {"parsed", "sending"}) => template.path = DefaultTemplateFile

C8_Witness ==
    /\ argv = OtherTemplateFile
    /\ pc = "sending"
    /\ template.path = DefaultTemplateFile

\* ------------------------------------------------------------------------
\* C9
\* ------------------------------------------------------------------------

\* C9: at entry to ensureAuthentication, a client that is set implies a gmail
\* service that is set.
C9_ClientImpliesGmail == (pc = "auth" /\ oAuth2Client) => gmail

\* ------------------------------------------------------------------------
\* C10
\* ------------------------------------------------------------------------

\* C10: a ParsedEmail holds From, To and Subject with non-empty values, and
\* the To check of sendEmail never fails.
C10_ToCheckNeverFails ==
    /\ (pc \in {"parsed", "sending"} /\ ~parsed.isNull)
          => \A f \in Mandatory :
                \E i \in 1..Len(parsed.headers.keys) :
                    parsed.headers.keys[i] = f /\ parsed.headers.vals[i] # <<>>
    /\ ~Logged("ToRequired")

C10_Witness ==
    /\ pc = "sending"
    /\ ~parsed.isNull
    /\ ~Logged("ToRequired")
    /\ invoked.send = 1

====
